---- MODULE Spec2Model ----
(***************************************************************************)
(* Outbound message delivery of src/whatsapp_webhook.py:                   *)
(*   MessageRateLimiter   (lines 348-364)  the daily quota window          *)
(*   split_message        (lines 366-406)  the segmenter                   *)
(*   send_whatsapp_message (lines 408-459) the dispatcher                  *)
(* A Python str is a sequence of one-character strings.                    *)
(***************************************************************************)
EXTENDS Integers, Sequences, FiniteSets, TLC

VARIABLES
    message_count,  \* rate_limiter.message_count
    reset_time,     \* rate_limiter.reset_time, in days since process start
    clock,          \* what datetime.now() returns, in days since process start
    pc,             \* pc[p]: where caller p stands in send_whatsapp_message
    message,        \* message[p]: index in Texts of the text p delivers
    i,              \* i[p]: the loop index of enumerate(message_chunks), 0-based
    reg,            \* reg[p]: the value read by "self.message_count += 1"
    ret,            \* ret[p]: what p's call returned ("none": not yet)
    why,            \* why[p]: which "return False" p's call took
    sent,           \* sent[p]: the loop indices whose body p's call handed to
                    \*          messages.create, in the order of the sends
    window_sends,   \* history: channel sends since the last rollover
    rolled,         \* history: some rollover has happened
    start_count,    \* history: message_count when the running call started
    call_rolled,    \* history: a rollover happened during the running call
    check_rolled,   \* history: the running can_send_message call rolled over
    observed,       \* history: the clock the running can_send_message call read
    prev,           \* history: the outcome of the call before the last one
    in_text,        \* segmenter check: the text handed to split_message
    in_max,         \* segmenter check: the max_length handed to split_message
    out,            \* segmenter check: the returned list
    called,         \* segmenter check: split_message has returned
    to_in,          \* destination check: the address handed in as "to"
    to,             \* destination check: the local "to"
    to_calls,       \* destination check: times lines 411-412 have run on it
    page,           \* week links check: the links of the fetched page, in order
    n_weeks,        \* week links check: the argument n of get_n_weeks_links
    fetch_raises,   \* week links check: the fetch or the parse raises
    recent_links,   \* week links check: the returned list
    links_called,   \* week links check: get_n_weeks_links has returned
    detected_lang,    \* image reply check: detected_lang of analyze_image_with_gemini
    initial_response, \* image reply check: response.text of the model
    analysis_result,  \* image reply check: the returned reply
    analysed          \* image reply check: analyze_image_with_gemini has returned

vars == <<message_count, reset_time, clock, pc, message, i, reg, ret, why, sent,
          window_sends, rolled, start_count, call_rolled, check_rolled,
          observed, prev, in_text, in_max, out, called, to_in, to, to_calls,
          page, n_weeks, fetch_raises, recent_links, links_called,
          detected_lang, initial_response, analysis_result, analysed>>

quotaVars == <<message_count, reset_time, clock, window_sends, rolled>>
callVars == <<pc, message, i, reg, ret, why, sent>>
histVars == <<start_count, call_rolled, check_rolled, observed, prev>>
splitVars == <<in_text, in_max, out, called>>
toVars == <<to_in, to, to_calls>>
linkVars == <<page, n_weeks, fetch_raises, recent_links, links_called>>
imageVars == <<detected_lang, initial_response, analysis_result, analysed>>

----------------------------------------------------------------------------
(* Bounds of the model *)

\* longest text handed to split_message in the segmenter check
MaxLen == 6
\* largest max_length handed to split_message in the segmenter check
MaxMax == 3
\* last value of the clock, in days
MaxClock == 3
\* how far past daily_limit the history count of channel sends is kept
MaxOver == 3
\* most pieces an address of the destination check is put together from
MaxPieces == 3
\* most times the destination check runs lines 411-412 on one address
MaxToCalls == 2
\* most links on the page of the week links check
MaxLinks == 3
\* largest n handed to get_n_weeks_links in the week links check
MaxN == 3
\* most lines of a model response in the image reply check
MaxLines == 3

(* Program constants *)

\* MessageRateLimiter.__init__(daily_limit=9)
daily_limit == 9
\* timedelta(days=1), the clock counting days
Day == 1
\* split_message(message, max_length=1400)
ChunkBudget == 1400
\* "if len(chunk_with_indicator) > 1500"
HardLimit == 1500
\* the three characters of "..."
EllipsisLen == 3
\* "if len(full_response) > 1200"
ReplyLimit == 1200

----------------------------------------------------------------------------
(* Python str operations used by the code *)

Rep(c, n) == [k \in 1..n |-> c]

\* s[a:b] for 0 <= a, b (Python slice, 0-based, end excluded, clipped)
Slice(s, a, b) ==
    LET hi == IF b > Len(s) THEN Len(s) ELSE b
    IN  IF a >= hi THEN <<>> ELSE SubSeq(s, a + 1, hi)

\* the characters str.strip() removes
Whitespace == {" ", "\n", "\t", "\r"}

\* s.strip()
strip(s) ==
    LET keep == {k \in 1..Len(s) : s[k] \notin Whitespace}
    IN  IF keep = {} THEN <<>>
        ELSE LET lo == CHOOSE k \in keep : \A j \in keep : k <= j
                 hi == CHOOSE k \in keep : \A j \in keep : k >= j
             IN  SubSeq(s, lo, hi)

\* s.endswith(t)
endswith(s, t) ==
    /\ Len(s) >= Len(t)
    /\ SubSeq(s, Len(s) - Len(t) + 1, Len(s)) = t

\* s.startswith(t)
startswith(s, t) ==
    /\ Len(s) >= Len(t)
    /\ SubSeq(s, 1, Len(t)) = t

\* the 1-based places where sep occurs in s
Occurrences(s, sep) ==
    {k \in 1..(Len(s) - Len(sep) + 1) : SubSeq(s, k, k + Len(sep) - 1) = sep}

RECURSIVE SplitFrom(_, _, _, _)
\* the pieces of s from place `from` on, cut at the leftmost occurrences in occ
\* that do not overlap
SplitFrom(s, sep, occ, from) ==
    LET next == {k \in occ : k >= from}
    IN  IF next = {} THEN <<Slice(s, from - 1, Len(s))>>
        ELSE LET k == CHOOSE x \in next : \A y \in next : x <= y
             IN  <<Slice(s, from - 1, k - 1)>>
                     \o SplitFrom(s, sep, occ, k + Len(sep))

\* s.split(sep), sep non-empty
split(s, sep) == SplitFrom(s, sep, Occurrences(s, sep), 1)

----------------------------------------------------------------------------
(* split_message *)

\* the body of "for word in words", one word: st = <<chunks, current_chunk>>
WordStep(st, word, max_length) ==
    LET chunks == st[1]
        current_chunk == st[2]
    IN  IF Len(current_chunk \o <<" ">> \o word) > max_length
        THEN IF current_chunk # <<>>
             THEN <<Append(chunks, strip(current_chunk)), word>>
             ELSE <<Append(chunks, Slice(word, 0, max_length)),
                    Slice(word, max_length, Len(word))>>
        ELSE <<chunks,
               IF current_chunk # <<>> THEN current_chunk \o <<" ">> \o word
                                       ELSE word>>

RECURSIVE WordLoop(_, _, _, _)
\* "for word in words" from the k-th word on
WordLoop(words, k, st, max_length) ==
    IF k > Len(words) THEN st
    ELSE WordLoop(words, k + 1, WordStep(st, words[k], max_length), max_length)

\* "if not sentence.endswith('.') and sentence != sentences[-1]: sentence += '.'"
WithPeriod(sentence, sentences) ==
    IF ~endswith(sentence, <<".">>) /\ sentence # sentences[Len(sentences)]
    THEN sentence \o <<".">>
    ELSE sentence

\* the body of "for sentence in sentences", one sentence
SentenceStep(st, sentence0, sentences, max_length) ==
    LET chunks == st[1]
        current_chunk == st[2]
        sentence == WithPeriod(sentence0, sentences)
    IN  IF Len(current_chunk \o sentence) > max_length
        THEN IF current_chunk # <<>>
             THEN <<Append(chunks, strip(current_chunk)), sentence>>
             ELSE WordLoop(split(sentence, <<" ">>), 1, st, max_length)
        ELSE <<chunks,
               IF current_chunk # <<>> THEN current_chunk \o <<" ">> \o sentence
                                       ELSE sentence>>

RECURSIVE SentenceLoop(_, _, _, _)
\* "for sentence in sentences" from the k-th sentence on
SentenceLoop(sentences, k, st, max_length) ==
    IF k > Len(sentences) THEN st
    ELSE SentenceLoop(sentences, k + 1,
                      SentenceStep(st, sentences[k], sentences, max_length),
                      max_length)

\* split_message with "<" for "<=" in its first test
split_message_strict(msg, max_length) ==
    IF Len(msg) < max_length THEN <<msg>>
    ELSE LET st == SentenceLoop(split(msg, <<".", " ">>), 1, <<<<>>, <<>>>>,
                                max_length)
         IN  IF st[2] # <<>> THEN Append(st[1], strip(st[2])) ELSE st[1]

split_message(msg, max_length) ==
    IF Len(msg) <= max_length THEN <<msg>>
    ELSE LET st == SentenceLoop(split(msg, <<".", " ">>), 1, <<<<>>, <<>>>>,
                                max_length)
         IN  IF st[2] # <<>> THEN Append(st[1], strip(st[2])) ELSE st[1]

----------------------------------------------------------------------------
(* The segmenter on its own: every text over Alphabet up to MaxLen characters,
   every max_length up to MaxMax *)

Alphabet == {"a", ".", " "}

StringsUpTo(n) == UNION {[1..k -> Alphabet] : k \in 0..n}

Procs == {"p1", "p2"}

InitQuota ==
    /\ message_count = 0
    /\ clock = 0
    /\ reset_time = clock + Day
    /\ window_sends = 0
    /\ rolled = FALSE

InitCalls ==
    /\ pc = [p \in Procs |-> "idle"]
    /\ message = [p \in Procs |-> 1]
    /\ i = [p \in Procs |-> 0]
    /\ reg = [p \in Procs |-> 0]
    /\ ret = [p \in Procs |-> "none"]
    /\ why = [p \in Procs |-> "none"]
    /\ sent = [p \in Procs |-> <<>>]

NoOutcome == [ret |-> "none", why |-> "none", nsent |-> 0, total |-> 0]

InitHist ==
    /\ start_count = 0
    /\ call_rolled = FALSE
    /\ check_rolled = FALSE
    /\ observed = 0
    /\ prev = NoOutcome

\* no destination under check
InitToIdle ==
    /\ to_in = <<>>
    /\ to = <<>>
    /\ to_calls = 0

\* no image reply under check
InitImageIdle ==
    /\ detected_lang = "en"
    /\ initial_response = <<>>
    /\ analysis_result = <<>>
    /\ analysed = FALSE

\* no page under check
InitLinksIdle ==
    /\ page = <<>>
    /\ n_weeks = 0
    /\ fetch_raises = FALSE
    /\ recent_links = <<>>
    /\ links_called = FALSE

InitSplit ==
    /\ InitQuota
    /\ InitCalls
    /\ InitHist
    /\ InitToIdle
    /\ InitLinksIdle
    /\ InitImageIdle
    /\ in_text \in StringsUpTo(MaxLen)
    /\ in_max \in 1..MaxMax
    /\ out = <<>>
    /\ called = FALSE

SplitCall ==
    /\ ~called
    /\ out' = split_message(in_text, in_max)
    /\ called' = TRUE
    /\ UNCHANGED <<in_text, in_max, quotaVars, callVars, histVars, toVars, linkVars, imageVars>>

NextSplit == SplitCall

SpecSplit == InitSplit /\ [][NextSplit]_vars

----------------------------------------------------------------------------
(* The destination of send_whatsapp_message on its own: addresses put
   together from at most MaxPieces pieces *)

\* "whatsapp:"
Prefix == <<"w", "h", "a", "t", "s", "a", "p", "p", ":">>

Pieces == {Prefix,
           <<"w", "h", "a", "t", "s", "a", "p", "p">>,
           <<"W", "h", "a", "t", "s", "a", "p", "p", ":">>,
           <<":">>,
           <<"+", "9", "1">>}

RECURSIVE Joined(_)
Joined(ps) == IF ps = <<>> THEN <<>> ELSE Head(ps) \o Joined(Tail(ps))

Addresses == {Joined(ps) : ps \in UNION {[1..k -> Pieces] : k \in 0..MaxPieces}}

\* normalize_to always putting the prefix in front
normalize_to_always(addr) == Prefix \o addr

\* "if not to.startswith('whatsapp:'): to = f'whatsapp:{to}'"
normalize_to(addr) ==
    IF ~startswith(addr, Prefix) THEN Prefix \o addr ELSE addr

InitTo ==
    /\ InitQuota
    /\ InitCalls
    /\ InitHist
    /\ in_text = <<>>
    /\ in_max = 1
    /\ out = <<>>
    /\ called = FALSE
    /\ InitLinksIdle
    /\ InitImageIdle
    /\ to_in \in Addresses
    /\ to = to_in
    /\ to_calls = 0

\* lines 411-412 run on the address, the first time or again on their result
Normalize ==
    /\ to_calls < MaxToCalls
    /\ to' = normalize_to(to)
    /\ to_calls' = to_calls + 1
    /\ UNCHANGED <<to_in, quotaVars, callVars, histVars, splitVars, linkVars, imageVars>>

NextTo == Normalize

SpecTo == InitTo /\ [][NextTo]_vars

----------------------------------------------------------------------------
(* WeekLinksExtractor.get_n_weeks_links of src/govt_data_scraper.py on its
   own.  A link of the page is a record: whether 'WriteReadData' is in its
   href, whether its href ends with '.pdf', and the year and week that
   _extract_week_info reads from its text. *)

Hrefs == {[wrd |-> TRUE, pdf |-> TRUE],
          [wrd |-> TRUE, pdf |-> FALSE],
          [wrd |-> FALSE, pdf |-> TRUE]}

WeekInfos == {[year |-> 2024, week |-> 2],
              [year |-> 2025, week |-> 1],
              [year |-> 2025, week |-> 2]}

Links == {[wrd |-> h.wrd, pdf |-> h.pdf, year |-> w.year, week |-> w.week] :
              h \in Hrefs, w \in WeekInfos}

Pages == UNION {[1..k -> Links] : k \in 0..MaxLinks}

RECURSIVE pdf_links_from(_, _)
\* "for link in links": the entries appended to pdf_links from the k-th link
\* on; src is the position of the link that title, url and filename are from
pdf_links_from(links, k) ==
    IF k > Len(links) THEN <<>>
    ELSE LET link == links[k]
             rest == pdf_links_from(links, k + 1)
         IN  IF link.wrd /\ link.pdf
             THEN <<[week |-> link.week, year |-> link.year, src |-> k]>> \o rest
             ELSE rest

\* the key (x['year'], x['week']) of a is less than that of b
KeyLess(a, b) == a.year < b.year \/ (a.year = b.year /\ a.week < b.week)

RECURSIVE sort_reverse(_)
\* "pdf_links.sort(key=..., reverse=True)": a stable sort, largest key first
sort_reverse(entries) ==
    IF entries = <<>> THEN <<>>
    ELSE LET n == Len(entries)
             front == sort_reverse(SubSeq(entries, 1, n - 1))
             e == entries[n]
             \* e goes behind every entry whose key is not less than its key
             at == Cardinality({k \in 1..Len(front) : ~KeyLess(front[k], e)})
         IN  SubSeq(front, 1, at) \o <<e>> \o SubSeq(front, at + 1, Len(front))

\* get_n_weeks_links with the sort left out
get_n_weeks_links_unsorted(links, n, raises) ==
    IF raises THEN <<>>
    ELSE Slice(pdf_links_from(links, 1), 0, n)

\* get_n_weeks_links(n) on a page with these links; raises: requests.get,
\* raise_for_status or BeautifulSoup raises, and "except Exception" returns []
get_n_weeks_links(links, n, raises) ==
    IF raises THEN <<>>
    ELSE Slice(sort_reverse(pdf_links_from(links, 1)), 0, n)

InitLinks ==
    /\ InitQuota
    /\ InitCalls
    /\ InitHist
    /\ InitToIdle
    /\ InitImageIdle
    /\ in_text = <<>>
    /\ in_max = 1
    /\ out = <<>>
    /\ called = FALSE
    /\ page \in Pages
    /\ n_weeks \in 0..MaxN
    /\ fetch_raises \in BOOLEAN
    /\ recent_links = <<>>
    /\ links_called = FALSE

LinksCall ==
    /\ ~links_called
    /\ recent_links' = get_n_weeks_links(page, n_weeks, fetch_raises)
    /\ links_called' = TRUE
    /\ UNCHANGED <<page, n_weeks, fetch_raises, quotaVars, callVars, histVars,
                   splitVars, toVars, imageVars>>

NextLinks == LinksCall

SpecLinks == InitLinks /\ [][NextLinks]_vars

----------------------------------------------------------------------------
(* The success path of analyze_image_with_gemini from the model's response
   on (src/whatsapp_webhook.py lines 230-277), on its own *)

\* the values detected_lang takes (lines 84-103)
Langs == {"en", "hi", "te"}

\* len() of the three disclaimers (lines 235-237)
DisclaimerLen == [en |-> 54, hi |-> 57, te |-> 66]

\* len() of the three fallback responses without the disclaimer (lines 268-270)
FallbackLen == [en |-> 125, hi |-> 113, te |-> 126]

\* disclaimers[detected_lang]: two newlines and the warning
disclaimer(lang) == <<"\n", "\n">> \o Rep("d", DisclaimerLen[lang] - 2)

\* fallback_responses[detected_lang]
fallback_response(lang) == Rep("f", FallbackLen[lang]) \o disclaimer(lang)

RECURSIVE join(_, _)
\* sep.join(lines)
join(sep, lines) ==
    IF lines = <<>> THEN <<>>
    ELSE IF Len(lines) = 1 THEN lines[1]
    ELSE lines[1] \o sep \o join(sep, Tail(lines))

RECURSIVE truncate_lines(_, _, _, _, _)
\* "for line in lines" from the k-th line on: the lines kept
truncate_lines(lines, k, truncated_lines, char_count, disclaimer_len) ==
    IF k > Len(lines) THEN truncated_lines
    ELSE IF char_count + Len(lines[k]) + disclaimer_len < ReplyLimit
         THEN truncate_lines(lines, k + 1, Append(truncated_lines, lines[k]),
                             char_count + Len(lines[k]) + 1, disclaimer_len)
         ELSE truncated_lines

\* full_response as returned
full_response(initial, lang) ==
    LET disc == disclaimer(lang)
    IN  IF Len(initial \o disc) > ReplyLimit
        THEN LET truncated_lines ==
                     truncate_lines(split(initial, <<"\n">>), 1, <<>>, 0, Len(disc))
             IN  IF truncated_lines # <<>>
                 THEN join(<<"\n">>, truncated_lines) \o disc
                 ELSE fallback_response(lang)
        ELSE initial \o disc

\* line lengths around the longest that fits with the disclaimer
LineLens(lang) ==
    LET fit == ReplyLimit - DisclaimerLen[lang]
    IN  {0, 1, fit - 2, fit - 1, fit, fit + 1}

\* the model responses of at most MaxLines lines
Responses(lang) ==
    {join(<<"\n">>, [k \in 1..Len(ls) |-> Rep("a", ls[k])]) :
         ls \in UNION {[1..n -> LineLens(lang)] : n \in 1..MaxLines}}

InitImage ==
    /\ InitQuota
    /\ InitCalls
    /\ InitHist
    /\ InitToIdle
    /\ InitLinksIdle
    /\ in_text = <<>>
    /\ in_max = 1
    /\ out = <<>>
    /\ called = FALSE
    /\ detected_lang \in Langs
    /\ initial_response \in Responses(detected_lang)
    /\ analysis_result = <<>>
    /\ analysed = FALSE

ImageCall ==
    /\ ~analysed
    /\ analysis_result' = full_response(initial_response, detected_lang)
    /\ analysed' = TRUE
    /\ UNCHANGED <<detected_lang, initial_response, quotaVars, callVars,
                   histVars, splitVars, toVars, linkVars>>

NextImage == ImageCall

SpecImage == InitImage /\ [][NextImage]_vars

----------------------------------------------------------------------------
(* send_whatsapp_message: the texts delivered *)

RECURSIVE Sentences(_, _)
\* k sentences of n letters each, joined by ". "
Sentences(k, n) ==
    IF k = 1 THEN Rep("a", n)
    ELSE Rep("a", n) \o <<".", " ">> \o Sentences(k - 1, n)

Texts == <<
    \* 1: a short reply
    <<"a", " ", "b", ".">>,
    \* 2: one unbroken token of 2000 characters
    Rep("a", 2000),
    \* 3: 1399 characters, one chunk
    Rep("a", 1399),
    \* 4: 1401 characters in two sentences that pack into one chunk
    Rep("a", 1398) \o <<".", " ", "b">>,
    \* 5: 3000 characters, five sentences
    Sentences(4, 598) \o <<".", " ">> \o Rep("b", 600),
    \* 6: a sentence of 1600 characters between two short ones
    <<"a", "a", ".", " ">> \o Rep("b", 1600) \o <<".", " ", "c">>,
    \* 7: one unbroken token of 2801 characters
    Rep("a", 2801),
    \* 8: the empty text
    <<>>,
    \* 9: exactly 1400 characters
    Rep("a", 1400),
    \* 10: words of 800 characters
    Rep("a", 800) \o <<" ">> \o Rep("b", 800) \o <<" ">> \o Rep("c", 800),
    \* 11: a middle chunk of 1489 characters: with its indicator, 1500
    <<"a", "a", ".", " ">> \o Rep("b", 1488) \o <<".", " ", "c">>,
    \* 12: a middle chunk of 1490 characters: with its indicator, 1501
    <<"a", "a", ".", " ">> \o Rep("b", 1489) \o <<".", " ", "c">>,
    \* 13: 1400 characters and a trailing space
    Rep("a", 1400) \o <<" ">>
>>

\* the texts of the interleaved deliveries: one chunk, two chunks
ConcTexts == {1, 2}

\* the texts of the deliveries made one at a time
SeqTexts == 1..Len(Texts)

\* message_chunks = split_message(message, max_length=1400), per text
ChunkTable == [m \in 1..Len(Texts) |-> split_message(Texts[m], ChunkBudget)]

DigitChars == <<"0", "1", "2", "3", "4", "5", "6", "7", "8", "9">>

RECURSIVE str(_)
\* str(n) of a natural number, as an f-string formats it
str(n) ==
    IF n < 10 THEN <<DigitChars[n + 1]>>
    ELSE str(n \div 10) \o <<DigitChars[(n % 10) + 1]>>

\* part_indicator numbering the parts from 0
part_indicator_zero(idx, n) ==
    <<"[", "P", "a", "r", "t", " ">> \o str(idx) \o <<"/">> \o str(n)
        \o <<"]", "\n">>

\* f"[Part {i+1}/{len(message_chunks)}]\n"
part_indicator(idx, n) ==
    <<"[", "P", "a", "r", "t", " ">> \o str(idx + 1) \o <<"/">> \o str(n)
        \o <<"]", "\n">>

\* chunk_with_indicator cutting the chunk to available_space - 3 and adding
\* no ellipsis
chunk_with_indicator_bare(chunks, idx) ==
    LET chunk == chunks[idx + 1]
    IN  IF Len(chunks) > 1
        THEN LET ind == part_indicator(idx, Len(chunks))
             IN  IF Len(ind \o chunk) > HardLimit
                 THEN LET available_space == HardLimit - Len(ind)
                      IN  ind \o Slice(chunk, 0, available_space - EllipsisLen)
                 ELSE ind \o chunk
        ELSE chunk

\* chunk_with_indicator cutting the chunk to available_space, the ellipsis
\* not counted
chunk_with_indicator_loose(chunks, idx) ==
    LET chunk == chunks[idx + 1]
    IN  IF Len(chunks) > 1
        THEN LET ind == part_indicator(idx, Len(chunks))
             IN  IF Len(ind \o chunk) > HardLimit
                 THEN LET available_space == HardLimit - Len(ind)
                      IN  ind \o Slice(chunk, 0, available_space)
                              \o <<".", ".", ".">>
                 ELSE ind \o chunk
        ELSE chunk

\* the body handed to messages.create for the chunk at 0-based index idx
chunk_with_indicator(chunks, idx) ==
    LET chunk == chunks[idx + 1]
    IN  IF Len(chunks) > 1
        THEN LET ind == part_indicator(idx, Len(chunks))
             IN  IF Len(ind \o chunk) > HardLimit
                 THEN LET available_space == HardLimit - Len(ind)
                      IN  ind \o Slice(chunk, 0, available_space - EllipsisLen)
                              \o <<".", ".", ".">>
                 ELSE ind \o chunk
        ELSE chunk

\* the bodies of every text, chunk by chunk
BodyTable ==
    [m \in 1..Len(Texts) |->
        [k \in 1..Len(ChunkTable[m]) |-> chunk_with_indicator(ChunkTable[m], k - 1)]]

\* len(message_chunks) of caller p
NChunks(p) == Len(ChunkTable[message[p]])

----------------------------------------------------------------------------
(* MessageRateLimiter and send_whatsapp_message, step by step *)

InitDeliver ==
    /\ InitQuota
    /\ InitCalls
    /\ InitHist
    /\ InitToIdle
    /\ InitLinksIdle
    /\ InitImageIdle
    /\ in_text = <<>>
    /\ in_max = 1
    /\ out = <<>>
    /\ called = FALSE

\* send_whatsapp_message is entered: the text is split, the loop starts
Call(p, m) ==
    /\ pc[p] = "idle"
    /\ message' = [message EXCEPT ![p] = m]
    /\ i' = [i EXCEPT ![p] = 0]
    /\ sent' = [sent EXCEPT ![p] = <<>>]
    /\ why' = [why EXCEPT ![p] = "none"]
    /\ IF Len(ChunkTable[m]) = 0
       THEN /\ pc' = [pc EXCEPT ![p] = "idle"]
            /\ ret' = [ret EXCEPT ![p] = "True"]
       ELSE /\ pc' = [pc EXCEPT ![p] = "cs_test"]
            /\ ret' = [ret EXCEPT ![p] = "none"]
    /\ UNCHANGED <<reg, quotaVars, splitVars, toVars, linkVars, imageVars>>

\* CanSendTest rolling the window over whatever the time
CanSendTest_always(p) ==
    /\ pc[p] = "cs_test"
    /\ pc' = [pc EXCEPT ![p] = "cs_zero"]
    /\ UNCHANGED <<message, i, reg, ret, why, sent, quotaVars, splitVars, toVars, linkVars, imageVars>>

\* CanSendTest with ">=" for ">"
CanSendTest_ge(p) ==
    /\ pc[p] = "cs_test"
    /\ pc' = [pc EXCEPT ![p] = IF clock >= reset_time THEN "cs_zero" ELSE "cs_ret"]
    /\ UNCHANGED <<message, i, reg, ret, why, sent, quotaVars, splitVars, toVars, linkVars, imageVars>>

\* can_send_message: "if datetime.now() > self.reset_time"
CanSendTest(p) ==
    /\ pc[p] = "cs_test"
    /\ pc' = [pc EXCEPT ![p] = IF clock > reset_time THEN "cs_zero" ELSE "cs_ret"]
    /\ UNCHANGED <<message, i, reg, ret, why, sent, quotaVars, splitVars, toVars, linkVars, imageVars>>

\* can_send_message: "self.message_count = 0"
CanSendZero(p) ==
    /\ pc[p] = "cs_zero"
    /\ message_count' = 0
    /\ window_sends' = 0
    /\ rolled' = TRUE
    /\ pc' = [pc EXCEPT ![p] = "cs_reset"]
    /\ UNCHANGED <<reset_time, clock, message, i, reg, ret, why, sent, splitVars, toVars, linkVars, imageVars>>

\* CanSendReset adding the day to the old reset_time
CanSendReset_old(p) ==
    /\ pc[p] = "cs_reset"
    /\ reset_time' = reset_time + Day
    /\ pc' = [pc EXCEPT ![p] = "cs_ret"]
    /\ UNCHANGED <<message_count, clock, window_sends, rolled, message, i, reg,
                   ret, why, sent, splitVars, toVars, linkVars, imageVars>>

\* can_send_message: "self.reset_time = datetime.now() + timedelta(days=1)"
CanSendReset(p) ==
    /\ pc[p] = "cs_reset"
    /\ reset_time' = clock + Day
    /\ pc' = [pc EXCEPT ![p] = "cs_ret"]
    /\ UNCHANGED <<message_count, clock, window_sends, rolled, message, i, reg,
                   ret, why, sent, splitVars, toVars, linkVars, imageVars>>

\* CanSendReturn with can_send_message returning True whatever the count
CanSendReturn_open(p) ==
    /\ pc[p] = "cs_ret"
    /\ pc' = [pc EXCEPT ![p] = "send"]
    /\ UNCHANGED <<message, i, reg, ret, why, sent, quotaVars, splitVars, toVars,
                   linkVars, imageVars>>

\* CanSendReturn with "<=" for "<"
CanSendReturn_le(p) ==
    /\ pc[p] = "cs_ret"
    /\ IF message_count <= daily_limit
       THEN /\ pc' = [pc EXCEPT ![p] = "send"]
            /\ UNCHANGED <<ret, why>>
       ELSE /\ pc' = [pc EXCEPT ![p] = "idle"]
            /\ ret' = [ret EXCEPT ![p] = "False"]
            /\ why' = [why EXCEPT ![p] = "quota"]
    /\ UNCHANGED <<message, i, reg, sent, quotaVars, splitVars, toVars, linkVars, imageVars>>

\* CanSendReturn whose refusal leaves the loop with "break": the call
\* returns True
CanSendReturn_break(p) ==
    /\ pc[p] = "cs_ret"
    /\ IF message_count < daily_limit
       THEN /\ pc' = [pc EXCEPT ![p] = "send"]
            /\ UNCHANGED <<ret, why>>
       ELSE /\ pc' = [pc EXCEPT ![p] = "idle"]
            /\ ret' = [ret EXCEPT ![p] = "True"]
            /\ why' = [why EXCEPT ![p] = "quota"]
    /\ UNCHANGED <<message, i, reg, sent, quotaVars, splitVars, toVars, linkVars, imageVars>>

\* can_send_message: "return self.message_count < self.daily_limit", and the
\* caller's "if not ...: return False"
CanSendReturn(p) ==
    /\ pc[p] = "cs_ret"
    /\ IF message_count < daily_limit
       THEN /\ pc' = [pc EXCEPT ![p] = "send"]
            /\ UNCHANGED <<ret, why>>
       ELSE /\ pc' = [pc EXCEPT ![p] = "idle"]
            /\ ret' = [ret EXCEPT ![p] = "False"]
            /\ why' = [why EXCEPT ![p] = "quota"]
    /\ UNCHANGED <<message, i, reg, sent, quotaVars, splitVars, toVars, linkVars, imageVars>>

\* the history count of channel sends in the window stops at this value
SendsCap == daily_limit + MaxOver

\* twilio_client.messages.create(body=chunk_with_indicator, ...) returns
SendOk(p) ==
    /\ pc[p] = "send"
    /\ sent' = [sent EXCEPT ![p] = Append(sent[p], i[p])]
    /\ window_sends' = IF window_sends < SendsCap THEN window_sends + 1
                                                  ELSE window_sends
    /\ pc' = [pc EXCEPT ![p] = "inc_read"]
    /\ UNCHANGED <<message_count, reset_time, clock, rolled, message, i, reg,
                   ret, why, splitVars, toVars, linkVars, imageVars>>

\* SendFail with increment_count called before messages.create
SendFail_counted(p) ==
    /\ pc[p] = "send"
    /\ message_count' = message_count + 1
    /\ ret' = [ret EXCEPT ![p] = "False"]
    /\ why' = [why EXCEPT ![p] = "channel"]
    /\ pc' = [pc EXCEPT ![p] = "idle"]
    /\ UNCHANGED <<message, i, reg, sent, reset_time, clock, window_sends,
                   rolled, splitVars, toVars, linkVars, imageVars>>

\* SendFail with the exception caught inside the loop: the loop goes on to
\* the next chunk
SendFail_continue(p) ==
    /\ pc[p] = "send"
    /\ why' = [why EXCEPT ![p] = "channel"]
    /\ IF i[p] < NChunks(p) - 1
       THEN /\ i' = [i EXCEPT ![p] = i[p] + 1]
            /\ pc' = [pc EXCEPT ![p] = "cs_test"]
            /\ UNCHANGED ret
       ELSE /\ pc' = [pc EXCEPT ![p] = "idle"]
            /\ ret' = [ret EXCEPT ![p] = "False"]
            /\ UNCHANGED i
    /\ UNCHANGED <<message, reg, sent, quotaVars, splitVars, toVars, linkVars, imageVars>>

\* twilio_client.messages.create raises: "except Exception: ... return False"
SendFail(p) ==
    /\ pc[p] = "send"
    /\ ret' = [ret EXCEPT ![p] = "False"]
    /\ why' = [why EXCEPT ![p] = "channel"]
    /\ pc' = [pc EXCEPT ![p] = "idle"]
    /\ UNCHANGED <<message, i, reg, sent, quotaVars, splitVars, toVars, linkVars, imageVars>>

\* increment_count: the read of "self.message_count += 1"
IncRead(p) ==
    /\ pc[p] = "inc_read"
    /\ reg' = [reg EXCEPT ![p] = message_count]
    /\ pc' = [pc EXCEPT ![p] = "inc_write"]
    /\ UNCHANGED <<message, i, ret, why, sent, quotaVars, splitVars, toVars, linkVars, imageVars>>

\* IncWrite going on to the next part without the delay
IncWrite_nodelay(p) ==
    /\ pc[p] = "inc_write"
    /\ message_count' = reg[p] + 1
    /\ reg' = [reg EXCEPT ![p] = 0]
    /\ IF NChunks(p) > 1 /\ i[p] < NChunks(p) - 1
       THEN /\ pc' = [pc EXCEPT ![p] = "cs_test"]
            /\ i' = [i EXCEPT ![p] = i[p] + 1]
            /\ UNCHANGED ret
       ELSE /\ pc' = [pc EXCEPT ![p] = "idle"]
            /\ ret' = [ret EXCEPT ![p] = "True"]
            /\ UNCHANGED i
    /\ UNCHANGED <<reset_time, clock, window_sends, rolled, message, why,
                   sent, splitVars, toVars, linkVars, imageVars>>

\* increment_count: the write of "self.message_count += 1"; then either the
\* delay before the next part, or the loop ends and the call returns True
IncWrite(p) ==
    /\ pc[p] = "inc_write"
    /\ message_count' = reg[p] + 1
    /\ reg' = [reg EXCEPT ![p] = 0]
    /\ IF NChunks(p) > 1 /\ i[p] < NChunks(p) - 1
       THEN /\ pc' = [pc EXCEPT ![p] = "sleep"]
            /\ UNCHANGED ret
       ELSE /\ pc' = [pc EXCEPT ![p] = "idle"]
            /\ ret' = [ret EXCEPT ![p] = "True"]
    /\ UNCHANGED <<reset_time, clock, window_sends, rolled, message, i, why,
                   sent, splitVars, toVars, linkVars, imageVars>>

\* Sleep with the loop index left where it is
Sleep_stay(p) ==
    /\ pc[p] = "sleep"
    /\ pc' = [pc EXCEPT ![p] = "cs_test"]
    /\ UNCHANGED <<i, message, reg, ret, why, sent, quotaVars, splitVars, toVars, linkVars, imageVars>>

\* time.sleep(1) ends; the loop goes on to the next chunk
Sleep(p) ==
    /\ pc[p] = "sleep"
    /\ i' = [i EXCEPT ![p] = i[p] + 1]
    /\ pc' = [pc EXCEPT ![p] = "cs_test"]
    /\ UNCHANGED <<message, reg, ret, why, sent, quotaVars, splitVars, toVars, linkVars, imageVars>>

\* a day passes
Tick ==
    /\ clock < MaxClock
    /\ clock' = clock + 1
    /\ UNCHANGED <<message_count, reset_time, window_sends, rolled, callVars,
                   splitVars, toVars, linkVars, imageVars>>

\* the outcome of p's call, as the call's return leaves it
Outcome(p) ==
    [ret |-> ret[p], why |-> why[p], nsent |-> Len(sent[p]), total |-> NChunks(p)]

\* the history of the deliveries of caller p, kept beside the step just taken
Observe(p) ==
    LET entered == pc[p] = "idle" /\ pc'[p] # "idle"
    IN  /\ start_count' = IF entered THEN message_count ELSE start_count
        /\ call_rolled' = IF entered THEN FALSE
                          ELSE IF pc[p] = "cs_zero" /\ pc'[p] # "cs_zero" THEN TRUE
                          ELSE call_rolled
        /\ check_rolled' = IF pc[p] = "cs_test" /\ pc'[p] # "cs_test"
                           THEN pc'[p] = "cs_zero"
                           ELSE check_rolled
        /\ observed' = IF pc[p] = "cs_test" /\ pc'[p] # "cs_test" THEN clock
                       ELSE observed
        /\ prev' = IF entered THEN Outcome(p) ELSE prev

\* a step of the one caller, with the history kept
InSeq(A) == A /\ Observe("p1")

\* one delivery at a time: a single caller
NextSeq ==
    \/ \E m \in SeqTexts : InSeq(Call("p1", m))
    \/ InSeq(CanSendTest("p1"))
    \/ InSeq(CanSendZero("p1"))
    \/ InSeq(CanSendReset("p1"))
    \/ InSeq(CanSendReturn("p1"))
    \/ InSeq(SendOk("p1"))
    \/ InSeq(SendFail("p1"))
    \/ InSeq(IncRead("p1"))
    \/ InSeq(IncWrite("p1"))
    \/ InSeq(Sleep("p1"))
    \/ InSeq(Tick)

SpecSeq == InitDeliver /\ [][NextSeq]_vars

\* a step of one of several callers; the single-caller history stands still
Conc(A) == A /\ UNCHANGED histVars

\* deliveries of several callers, interleaved step by step
Next ==
    \/ \E p \in Procs : \E m \in ConcTexts : Conc(Call(p, m))
    \/ \E p \in Procs : Conc(CanSendTest(p))
    \/ \E p \in Procs : Conc(CanSendZero(p))
    \/ \E p \in Procs : Conc(CanSendReset(p))
    \/ \E p \in Procs : Conc(CanSendReturn(p))
    \/ \E p \in Procs : Conc(SendOk(p))
    \/ \E p \in Procs : Conc(SendFail(p))
    \/ \E p \in Procs : Conc(IncRead(p))
    \/ \E p \in Procs : Conc(IncWrite(p))
    \/ \E p \in Procs : Conc(Sleep(p))
    \/ Conc(Tick)

Spec == InitDeliver /\ [][Next]_vars

----------------------------------------------------------------------------
(* The claims *)

\* C1: every chunk split_message returns is at most max_length long.
C1_ChunksWithinMax ==
    called => \A k \in 1..Len(out) : Len(out[k]) <= in_max

\* every send of the window has been counted or is about to be: no increment
\* of message_count has been lost
C2_CountExact ==
    message_count + Cardinality({p \in Procs : pc[p] \in {"inc_read", "inc_write"}})
        = window_sends

\* C2: without a window rollover (and with no increment lost), the channel
\* sends of the interleaved deliveries never number more than daily_limit.
C2_SendsWithinLimit ==
    (~rolled /\ C2_CountExact) => window_sends <= daily_limit

\* C3: every body handed to messages.create is at most 1500 characters long.
C3_BodiesWithinHardLimit ==
    \A p \in Procs : \A k \in 1..Len(sent[p]) :
        Len(BodyTable[message[p]][sent[p][k] + 1]) <= HardLimit

\* a part whose indicator and chunk exceed 1500 characters has been sent
C3_Witness ==
    \E k \in 1..Len(sent["p1"]) :
        LET idx == sent["p1"][k]
            chunks == ChunkTable[message["p1"]]
        IN  /\ Len(chunks) > 1
            /\ Len(part_indicator(idx, Len(chunks))) + Len(chunks[idx + 1]) > HardLimit

\* the loop index of the chunk p is about to send, or has just sent
C4_AtChunk(p) ==
    IF pc[p] \in {"inc_read", "inc_write", "sleep"} THEN Len(sent[p]) - 1
    ELSE Len(sent[p])

\* C4: within one call the chunks sent so far are chunks 1..k, sent in that
\* order and once each, and the call stands at chunk k+1 only after the send of
\* chunk k has returned.
C4_SentIsPrefixInOrder ==
    \A p \in Procs :
        /\ Len(sent[p]) <= NChunks(p)
        /\ \A k \in 1..Len(sent[p]) : sent[p][k] = k - 1
        /\ pc[p] # "idle" => i[p] = C4_AtChunk(p)

\* both parts of a two-part text have been sent while another call is running
C4_Witness ==
    \E p, q \in Procs :
        /\ p # q
        /\ Len(sent[p]) = 2
        /\ pc[q] # "idle"

\* C5: a delivery of N chunks started with r sends left, without rollover or
\* channel failure, sends all N and returns True when r >= N, and otherwise
\* sends exactly the first r, returns False and leaves the count at daily_limit.
C5_QuotaCutsDelivery ==
    LET p == "p1"
        N == NChunks(p)
        r == daily_limit - start_count
    IN  (pc[p] = "idle" /\ ret[p] # "none" /\ ~call_rolled /\ why[p] # "channel")
        => /\ r >= 0
           /\ IF r >= N
              THEN /\ sent[p] = [k \in 1..N |-> k - 1]
                   /\ ret[p] = "True"
              ELSE /\ sent[p] = [k \in 1..r |-> k - 1]
                   /\ ret[p] = "False"
                   /\ why[p] = "quota"
                   /\ message_count = daily_limit

\* count 8, limit 9, 3 chunks: 1 send, then the refusal
C5_Witness ==
    /\ pc["p1"] = "idle"
    /\ ret["p1"] = "False"
    /\ ~call_rolled
    /\ why["p1"] = "quota"
    /\ start_count = daily_limit - 1
    /\ NChunks("p1") = 3
    /\ sent["p1"] = <<0>>

\* what the caller of send_whatsapp_message gets back
Returned(o) == o.ret

C7_CountGrowsBySends ==
    LET p == "p1"
        pending == IF pc[p] \in {"inc_read", "inc_write"} THEN 1 ELSE 0
    IN  ((pc[p] # "idle" \/ ret[p] # "none") /\ ~call_rolled)
        => message_count = start_count + Len(sent[p]) - pending

\* a call that sent one chunk and failed on the second has ended
C7_Witness ==
    /\ pc["p1"] = "idle"
    /\ why["p1"] = "channel"
    /\ ~call_rolled
    /\ Len(sent["p1"]) = 1
    /\ message_count = start_count + 1

\* C8: increment_count adds exactly 1; can_send_message answers True only
\* below daily_limit and False at or above it; and a count at or above the
\* limit drops below it only in a call that read a clock past reset_time.
C8_QuotaMonotone ==
    [][LET p == "p1"
       IN  /\ (pc[p] = "inc_write" /\ pc'[p] # "inc_write")
              => message_count' = message_count + 1
           /\ (pc[p] = "cs_ret" /\ pc'[p] = "send")
              => message_count < daily_limit
           /\ (pc[p] = "cs_ret" /\ pc'[p] # "cs_ret" /\ message_count >= daily_limit)
              => (pc'[p] = "idle" /\ ret'[p] = "False")
           /\ (message_count >= daily_limit /\ message_count' < daily_limit)
              => (pc[p] = "cs_zero" /\ observed > reset_time)]_vars

\* at the limit, within the window, a call has been refused
C8_Witness ==
    /\ message_count = daily_limit
    /\ clock <= reset_time
    /\ pc["p1"] = "idle"
    /\ why["p1"] = "quota"

\* C9: the window starts with count 0 and reset_time one day after the start;
\* a can_send_message call rolls the window exactly when it reads a clock past
\* reset_time, then sets the count to 0 and reset_time to one day after its
\* own time, and answers True with the count at 0.
C9_WindowRollover ==
    [][LET p == "p1"
       IN  /\ ~rolled => reset_time = 0 + Day
           /\ (~rolled /\ window_sends = 0) => message_count = 0
           /\ (pc[p] = "cs_test" /\ pc'[p] # "cs_test")
              => (pc'[p] = "cs_zero" <=> clock > reset_time)
           /\ (pc[p] = "cs_zero" /\ pc'[p] # "cs_zero")
              => (message_count' = 0 /\ pc'[p] = "cs_reset")
           /\ (pc[p] = "cs_reset" /\ pc'[p] # "cs_reset")
              => /\ message_count' = 0
                 /\ reset_time' = clock + Day
                 /\ reset_time' >= observed + Day
                 /\ pc'[p] = "cs_ret"
           /\ (pc[p] = "cs_ret" /\ pc'[p] # "cs_ret" /\ check_rolled)
              => (message_count = 0 /\ pc'[p] = "send")]_vars

\* a call that started with the count at the limit rolled the window and may
\* send
C9_Witness ==
    /\ start_count = daily_limit
    /\ check_rolled
    /\ pc["p1"] = "send"
    /\ message_count = 0
    /\ sent["p1"] = <<>>

\* C10: a text no longer than max_length comes back as one chunk equal to it.
C10_ShortTextOneChunk ==
    (called /\ Len(in_text) <= in_max) => out = <<in_text>>

\* a text of exactly max_length characters, with spaces at its ends
C10_Witness ==
    /\ called
    /\ Len(in_text) = in_max
    /\ in_text[1] = " "
    /\ out = <<in_text>>

\* C11: split_message of the empty text returns no chunk at all.
C11_EmptyTextNoChunks ==
    (called /\ in_text = <<>>) => out = <<>>

\* C12: no chunk split_message returns for a non-empty text is the empty
\* string.
C12_NoEmptyChunk ==
    (called /\ in_text # <<>>) => \A k \in 1..Len(out) : out[k] # <<>>

RECURSIVE Flatten(_)
\* the chunks one after another
Flatten(chunks) ==
    IF chunks = <<>> THEN <<>> ELSE Head(chunks) \o Flatten(Tail(chunks))

\* s without its space characters
NoSpaces(s) == SelectSeq(s, LAMBDA c : c # " ")

\* C13: the chunks of split_message, one after another, are the text, spaces
\* left out of both: nothing else is dropped, added or moved.
C13_ChunksSpellText ==
    called => NoSpaces(Flatten(out)) = NoSpaces(in_text)

\* the body of the k-th send of p's call
SentBody(p, k) == BodyTable[message[p]][sent[p][k] + 1]

\* the chunk of the k-th send of p's call
SentChunk(p, k) == ChunkTable[message[p]][sent[p][k] + 1]

\* "[Part k/N]" and a newline, k counted from 1
C14_Indicator(k, n) ==
    <<"[", "P", "a", "r", "t", " ">> \o str(k) \o <<"/">> \o str(n) \o <<"]", "\n">>

\* C14 as claimed: with several chunks the body of the k-th send is
\* "[Part k/N]", a newline and the chunk; with one chunk it is the text.
C14_BodyIsIndicatorPlusChunk ==
    \A p \in Procs : \A k \in 1..Len(sent[p]) :
        IF NChunks(p) > 1
        THEN SentBody(p, k) = C14_Indicator(k, NChunks(p)) \o SentChunk(p, k)
        ELSE SentBody(p, k) = Texts[message[p]]

\* C14 as amended: with several chunks the body of the k-th send is
\* "[Part k/N]", a newline and then the chunk when that fits in 1500
\* characters, else a prefix of the chunk and "..." filling the 1500; with one
\* chunk the body is that chunk, which is the text when the text has at most
\* 1400 characters.
C14_BodyFormat ==
    \A p \in Procs : \A k \in 1..Len(sent[p]) :
        LET body == SentBody(p, k)
            chunk == SentChunk(p, k)
            ind == C14_Indicator(k, NChunks(p))
            rest == Slice(body, Len(ind), Len(body))
        IN  IF NChunks(p) > 1
            THEN /\ startswith(body, ind)
                 /\ IF Len(ind) + Len(chunk) <= HardLimit
                    THEN rest = chunk
                    ELSE /\ Len(body) = HardLimit
                         /\ endswith(rest, <<".", ".", ".">>)
                         /\ startswith(chunk, Slice(rest, 0, Len(rest) - EllipsisLen))
            ELSE /\ body = chunk
                 /\ Len(Texts[message[p]]) <= ChunkBudget => body = Texts[message[p]]

\* the three parts of a text have been sent, the second of them cut
C14_Witness ==
    /\ NChunks("p1") = 3
    /\ Len(sent["p1"]) = 3
    /\ Len(SentChunk("p1", 2)) > HardLimit
    /\ ret["p1"] = "True"

\* C15: a delivery of the empty text never reaches messages.create, sends
\* nothing, leaves message_count as it was and returns True.
C15_EmptyTextNoSend ==
    LET p == "p1"
    IN  (Texts[message[p]] = <<>> /\ (pc[p] # "idle" \/ ret[p] # "none"))
        => /\ pc[p] # "send"
           /\ sent[p] = <<>>
           /\ pc[p] = "idle" => ret[p] = "True"
           /\ (pc[p] = "idle" /\ ~call_rolled) => message_count = start_count

\* C16: a text without a space, longer than max_length, is cut at max_length:
\* the first chunk is its first max_length characters, the chunks together
\* are the text, and every chunk is at most max_length long.
C16_TokenCutAtMax ==
    (called /\ Len(in_text) > in_max /\ \A k \in 1..Len(in_text) : in_text[k] # " ")
    => /\ Len(out) >= 2
       /\ out[1] = Slice(in_text, 0, in_max)
       /\ Flatten(out) = in_text
       /\ \A k \in 1..Len(out) : Len(out[k]) <= in_max

\* C17: once messages.create has raised for chunk i the call has ended and
\* returned False: chunks 1..i-1 are the only ones sent, and without rollover
\* message_count counts exactly those.
C17_FailureStopsDelivery ==
    LET p == "p1"
    IN  why[p] = "channel"
        => /\ pc[p] = "idle"
           /\ ret[p] = "False"
           /\ i[p] < NChunks(p)
           /\ sent[p] = [k \in 1..i[p] |-> k - 1]
           /\ ~call_rolled => message_count = start_count + i[p]

\* the second of three chunks failed after the first was sent and counted
C17_Witness ==
    /\ why["p1"] = "channel"
    /\ NChunks("p1") = 3
    /\ i["p1"] = 1
    /\ sent["p1"] = <<0>>
    /\ start_count > 0
    /\ message_count = start_count + 1

Periods(s) == Len(SelectSeq(s, LAMBDA c : c = "."))

\* C18: when split_message splits on '. ', every fragment but the last gets
\* its period back and the last gets none, so the chunks hold as many periods
\* as the text.
C18_PeriodsRestored ==
    (called /\ Len(in_text) > in_max)
        => LET sentences == split(in_text, <<".", " ">>)
               n == Len(sentences)
           IN  /\ \A k \in 1..n :
                      WithPeriod(sentences[k], sentences)
                          = IF k < n THEN sentences[k] \o <<".">>
                                     ELSE sentences[k]
               /\ Periods(Flatten(out)) = Periods(in_text)

\* C19: a text of only spaces comes back as one chunk equal to the text when
\* it fits max_length, and otherwise as a non-empty list of chunks of at most
\* max_length characters.
C19_SpacesOnly ==
    (called /\ in_text # <<>> /\ \A k \in 1..Len(in_text) : in_text[k] = " ")
        => IF Len(in_text) <= in_max
           THEN out = <<in_text>>
           ELSE /\ out # <<>>
                /\ \A k \in 1..Len(out) : Len(out[k]) <= in_max

RECURSIVE SentenceLoopBefore(_, _, _)
\* <<chunks, current_chunk>> when "for sentence in sentences" reaches the
\* k-th sentence
SentenceLoopBefore(sentences, k, max_length) ==
    IF k = 1 THEN <<<<>>, <<>>>>
    ELSE SentenceStep(SentenceLoopBefore(sentences, k - 1, max_length),
                      sentences[k - 1], sentences, max_length)

\* C20: with a non-empty buffer, split_message closes the buffer and starts a
\* new one with the next sentence exactly when buffer, joining space and
\* sentence together are longer than max_length, and otherwise appends the
\* sentence after a space.
C20_GreedyWithJoiningSpace ==
    (called /\ Len(in_text) > in_max)
        => LET sentences == split(in_text, <<".", " ">>)
           IN  \A k \in 1..Len(sentences) :
                   LET st == SentenceLoopBefore(sentences, k, in_max)
                       sentence == WithPeriod(sentences[k], sentences)
                       after == SentenceLoopBefore(sentences, k + 1, in_max)
                   IN  st[2] # <<>>
                       => IF Len(st[2]) + 1 + Len(sentence) > in_max
                          THEN after = <<Append(st[1], strip(st[2])), sentence>>
                          ELSE after = <<st[1], st[2] \o <<" ">> \o sentence>>

\* "if current_chunk: chunks.append(current_chunk.strip())" and "return chunks"
\* after the sentence loop went on from state st at the k-th sentence
FinishFrom(sentences, k, st, max_length) ==
    LET last == SentenceLoop(sentences, k, st, max_length)
    IN  IF last[2] # <<>> THEN Append(last[1], strip(last[2])) ELSE last[1]

\* C21: a sentence longer than max_length is split on single spaces and its
\* words are packed by the word loop, whether the buffer is empty or not when
\* the sentence is reached: the chunks returned are those of a run that packs
\* the sentence's words onto the buffer or after closing the buffer.
C21_LongSentenceWordSplit ==
    (called /\ Len(in_text) > in_max)
        => LET sentences == split(in_text, <<".", " ">>)
           IN  \A k \in 1..Len(sentences) :
                   LET st == SentenceLoopBefore(sentences, k, in_max)
                       sentence == WithPeriod(sentences[k], sentences)
                       words == split(sentence, <<" ">>)
                       closed == <<Append(st[1], strip(st[2])), <<>>>>
                   IN  Len(sentence) > in_max
                       => out \in {FinishFrom(sentences, k + 1,
                                       WordLoop(words, 1, st, in_max), in_max),
                                   FinishFrom(sentences, k + 1,
                                       WordLoop(words, 1, closed, in_max), in_max)}

\* C22: a part whose indicator and chunk together exceed 1500 characters is
\* sent as the whole indicator, a prefix of the chunk and "...", at most 1500
\* characters in all; a part that fits is sent as indicator and whole chunk.
C22_OnlyChunkShortened ==
    \A p \in Procs : \A k \in 1..Len(sent[p]) :
        NChunks(p) > 1
            => LET ind == C14_Indicator(sent[p][k] + 1, NChunks(p))
                   chunk == SentChunk(p, k)
                   body == SentBody(p, k)
               IN  IF Len(ind) + Len(chunk) > HardLimit
                   THEN /\ startswith(body, ind)
                        /\ endswith(body, <<".", ".", ".">>)
                        /\ Len(body) <= HardLimit
                        /\ Len(body) >= Len(ind) + EllipsisLen
                        /\ startswith(chunk,
                               Slice(body, Len(ind), Len(body) - EllipsisLen))
                   ELSE body = ind \o chunk

\* the second of three parts was one character too long with its indicator
\* and has been sent
C22_Witness ==
    \E k \in 1..Len(sent["p1"]) :
        /\ NChunks("p1") = 3
        /\ sent["p1"][k] = 1
        /\ Len(C14_Indicator(2, 3)) + Len(SentChunk("p1", k)) = HardLimit + 1
        /\ Len(SentBody("p1", k)) = HardLimit

\* C23: with deliveries interleaved, whenever no caller stands between a
\* successful send and the end of its increment_count, message_count is the
\* number of channel sends since the last rollover.
C23_CountIsWindowSends ==
    (/\ \A p \in Procs : pc[p] \notin {"inc_read", "inc_write"}
     /\ window_sends < SendsCap)
        => message_count = window_sends

\* C24: a caller enters the one-second delay only from the increment that
\* follows a successful send, and does so exactly when the delivery has more
\* than one part and the part sent is not the last; the loop moves on to the
\* next part only out of the delay.
C24_DelayBetweenParts ==
    [][\A p \in Procs :
          /\ (pc[p] = "inc_write" /\ pc'[p] # "inc_write")
                 => /\ Len(sent[p]) = i[p] + 1
                    /\ sent[p][i[p] + 1] = i[p]
                    /\ (pc'[p] = "sleep")
                           <=> (NChunks(p) > 1 /\ i[p] + 1 < NChunks(p))
          /\ (pc'[p] = "sleep" /\ pc[p] # "sleep") => pc[p] = "inc_write"
          /\ (pc[p] = "sleep" /\ pc'[p] # "sleep")
                 => /\ i'[p] = i[p] + 1
                    /\ pc'[p] = "cs_test"
                    /\ sent'[p] = sent[p]
          /\ (i'[p] # i[p] /\ pc[p] # "idle") => pc[p] = "sleep"
      ]_vars

\* the caller is in the delay after the second of three parts
C24_Witness ==
    /\ pc["p1"] = "sleep"
    /\ NChunks("p1") = 3
    /\ i["p1"] = 1
    /\ sent["p1"] = <<0, 1>>

\* C25: message_count is written only by the increment after a successful
\* send and by the rollover, reset_time only by the rollover; the steps of a
\* can_send_message call that reads a time not after reset_time, the call
\* entry with split_message, and a failed or refused send leave both as
\* they were.
C25_QuotaFrame ==
    [][/\ message_count' # message_count
          => \E p \in Procs :
                 \/ /\ pc[p] = "inc_write" /\ pc'[p] # "inc_write"
                    /\ sent[p] # <<>>
                    /\ message_count' = reg[p] + 1
                 \/ /\ pc[p] = "cs_zero" /\ pc'[p] = "cs_reset"
                    /\ message_count' = 0
       /\ reset_time' # reset_time
          => \E p \in Procs : pc[p] = "cs_reset" /\ pc'[p] = "cs_ret"
       /\ \A p \in Procs :
              /\ (pc[p] = "cs_test" /\ pc'[p] # "cs_test" /\ ~(clock > reset_time))
                     => /\ pc'[p] = "cs_ret"
                        /\ <<message_count, reset_time>>' = <<message_count, reset_time>>
              /\ (pc[p] \in {"idle", "cs_ret", "send"} /\ pc'[p] # pc[p])
                     => <<message_count, reset_time>>' = <<message_count, reset_time>>
      ]_vars

\* a can_send_message call that read a time not after reset_time is about to
\* return with sends counted, after the other caller's send failed
C25_Witness ==
    /\ pc["p1"] = "cs_ret"
    /\ ~rolled
    /\ clock = reset_time
    /\ message_count = 2
    /\ why["p2"] = "channel"

\* C26: once lines 411-412 have run, the address starts with "whatsapp:"; it
\* is the address handed in when that already started with the prefix, and
\* the prefix followed by the address handed in otherwise; running the lines
\* again on the result changes nothing.
C26_NormalizeIdempotent ==
    to_calls >= 1
        => /\ SubSeq(to, 1, Len(Prefix)) = Prefix
           /\ IF Len(to_in) >= Len(Prefix) /\ SubSeq(to_in, 1, Len(Prefix)) = Prefix
              THEN to = to_in
              ELSE to = Prefix \o to_in

\* an address without the prefix has gone through the lines twice
C26_Witness ==
    /\ to_calls = 2
    /\ to_in = <<"+", "9", "1">>
    /\ to = Prefix \o to_in

\* C27: get_n_weeks_links(n) returns at most n entries, the (year, week) of
\* each not less than that of the next, each made from a different link of
\* the page whose href has 'WriteReadData' in it and ends in '.pdf', with
\* that link's year and week; when the fetch or the parse raises it returns
\* the empty list.
C27_RecentLinks ==
    links_called
        => IF fetch_raises THEN recent_links = <<>>
           ELSE /\ Len(recent_links) <= n_weeks
                /\ \A k \in 1..Len(recent_links) - 1 :
                       LET a == recent_links[k]
                           b == recent_links[k + 1]
                       IN  a.year > b.year \/ (a.year = b.year /\ a.week >= b.week)
                /\ \A k \in 1..Len(recent_links) :
                       LET e == recent_links[k]
                       IN  /\ e.src \in 1..Len(page)
                           /\ page[e.src].wrd /\ page[e.src].pdf
                           /\ e.year = page[e.src].year
                           /\ e.week = page[e.src].week
                /\ \A k, l \in 1..Len(recent_links) :
                       recent_links[k].src = recent_links[l].src => k = l

\* of three links the newest stood last and one was no PDF link; two entries
\* were asked for and two returned, the newest first
C27_Witness ==
    /\ links_called /\ ~fetch_raises
    /\ Len(page) = 3 /\ n_weeks = 1 + 1
    /\ ~page[2].pdf
    /\ Len(recent_links) = 2
    /\ recent_links[1].src = 3 /\ recent_links[2].src = 1
    /\ recent_links[1].year > recent_links[2].year

\* C28: with one delivery at a time, message_count is never below 0 and
\* never above daily_limit.
C28_CountWithinLimit ==
    message_count >= 0 /\ message_count <= daily_limit

\* the count stands at daily_limit in a window opened by a rollover, after a
\* delivery that failed on the channel
C28_Witness ==
    /\ message_count = daily_limit
    /\ rolled
    /\ prev.why = "channel"
    /\ pc["p1"] = "idle"

\* C29: reset_time never decreases and changes only in the rollover of a
\* can_send_message call, to a value greater than its old value and than the
\* time; message_count decreases only in such a rollover, to 0.
C29_ResetTimeAndCountMonotone ==
    [][/\ reset_time' >= reset_time
       /\ reset_time' # reset_time
          => /\ \E p \in Procs : pc[p] = "cs_reset" /\ pc'[p] = "cs_ret"
             /\ reset_time' > reset_time
             /\ reset_time' > clock
       /\ message_count' < message_count
          => /\ \E p \in Procs : pc[p] = "cs_zero" /\ pc'[p] = "cs_reset"
             /\ message_count' = 0
      ]_vars

\* the first k whole lines of the text s
C30_LinePrefix(s, k) ==
    LET lines == split(s, <<"\n">>)
        RECURSIVE upto(_)
        upto(j) == IF j = 0 THEN 0 ELSE upto(j - 1) + Len(lines[j]) + 1
    IN  SubSeq(s, 1, upto(k) - 1)

\* C30: the reply analyze_image_with_gemini returns on success is at most
\* 1200 characters long and ends with the disclaimer; a response too long with
\* the disclaimer is cut to its longest prefix of whole lines that is at most
\* 1200 characters long with the disclaimer, or is replaced by the fallback
\* text when its first line alone is too long; split_message returns the reply
\* as its one chunk.
C30_ImageReplyFits ==
    analysed
        => LET disc == disclaimer(detected_lang)
               n == Len(split(initial_response, <<"\n">>))
               fits == {k \in 1..n :
                           Len(C30_LinePrefix(initial_response, k)) + Len(disc)
                               <= ReplyLimit}
           IN  /\ Len(analysis_result) <= ReplyLimit
               /\ endswith(analysis_result, disc)
               /\ Len(initial_response) + Len(disc) > ReplyLimit
                  => IF fits = {}
                     THEN analysis_result = fallback_response(detected_lang)
                     ELSE analysis_result
                              = C30_LinePrefix(initial_response,
                                    CHOOSE k \in fits : \A j \in fits : j <= k)
                                \o disc
               /\ split_message(analysis_result, ChunkBudget) = <<analysis_result>>

====
